---------------------------- MODULE Spec2Model ----------------------------
(***************************************************************************)
(* Model of the ntex-mqtt connection acceptor (src/service.rs: MqttServer, *)
(* MqttHandler) and of the v5 publish router (src/v5/router.rs: Router,    *)
(* RouterFactory, RouterFactoryFut, RouterService).                        *)
(*                                                                         *)
(* Futures are modelled by their polls: a poll of an external future       *)
(* (handshake, handler construction, Dispatcher, slot readiness, slot      *)
(* call) returns Pending or Ready(value), the environment choosing which.  *)
(* The only timed object, the Sleep handed to accept, is an environment    *)
(* event (DeadlineFires) that the task observes at its next poll.          *)
(* For wake-ups (SpecReadiness) a slot's readiness is kept as state: a     *)
(* slot polled while not ready holds the task's waker until it resolves.   *)
(***************************************************************************)
EXTENDS Integers, Sequences, FiniteSets, TLC

(* ------------------------------- bounds -------------------------------- *)
NumConns == 2
MaxPending == 2

MaxRoutes == 2

Conns == 1..NumConns
Errors == {"E1", "E2"}
\* What the Connect Service negotiates for a transport: a session state of
\* the connection's own, and a keepalive.
SessionOf(io) == io
KeepAliveOf(st) == 30 * st
Codecs == {"codec"}
Timeouts == {3}

\* Router sessions, the user's default services, topics and patterns (a
\* topic is its sequence of levels; "+" and "#" are the wildcards).
Sessions == {1, 2}
DefaultServices == {"D1", "D2"}
Topics == {<<"a">>, <<"a", "b">>, <<"b">>}
Patterns == {<<"a", "+">>, <<"a", "#">>}

VARIABLES
    server,       \* MqttServer: the configured factory
    mqttHandler,  \* MqttHandler produced by create_service (None before)
    conn,         \* per accepted transport: the future returned by call
    phase,        \* "config": Router (builder); "compiled": RouterFactory
    router,       \* RouterBuilder / compiled Router<usize>: the (pattern, idx) entries
    handlers,     \* Vec<Handler>: the per-route handler factories
    default,      \* the default handler factory
    sess,         \* per session: RouterFactoryFut, then RouterService or the error
    last,         \* what the most recent Router / RouterService operation did and returned
    slots,        \* per session: each per-route slot's readiness and the waker it holds
    task          \* per session: the task that drives the RouterService's poll_ready

avars == <<server, mqttHandler, conn>>
rvars == <<phase, router, handlers, default, sess, last>>
wvars == <<slots, task>>
vars == <<server, mqttHandler, conn, phase, router, handlers, default, sess, last,
          slots, task>>

(* ------------------------------ values --------------------------------- *)
NoResult == [kind |-> "none", err |-> "-"]
OkResult == [kind |-> "ok", err |-> "-"]
ErrResult(e) == [kind |-> "err", err |-> e]
PendingPoll == [kind |-> "pending", err |-> "-"]

\* Output of one poll of a Result<(), E> future.
UnitOutcomes == {PendingPoll, OkResult} \cup {ErrResult(e) : e \in Errors}

NoHandshake == [kind |-> "none", io |-> 0, codec |-> "-", st |-> 0, ka |-> 0, err |-> "-"]

\* Output of one poll of the Connect Service's future for transport io:
\* Pending, Ok((io, codec, st, keepalive)) or Err(e).
HandshakeOutcomes(io) ==
    {[NoHandshake EXCEPT !.kind = "pending"]}
    \cup {[kind |-> "ok", io |-> io, codec |-> cd, st |-> SessionOf(io),
            ka |-> KeepAliveOf(SessionOf(io)), err |-> "-"] : cd \in Codecs}
    \cup {[NoHandshake EXCEPT !.kind = "err", !.err = e] : e \in Errors}

NoDispatcher == [io |-> 0, codec |-> "-", handler |-> 0,
                 keepalive_timeout |-> 0, disconnect_timeout |-> 0]

NoHandler == [disconnect_timeout |-> 0, built |-> FALSE]

\* The future returned by MqttHandler::call before call is made.
IdleConn ==
    [entry |-> "idle", pc |-> "idle", delay |-> "absent", pending |-> 0,
     timeout |-> 0, connectCalls |-> 0, factoryCalls |-> 0, dispatchCalls |-> 0,
     handshake |-> NoHandshake, factoryArg |-> 0, built |-> NoResult,
     handler |-> 0, dispatcher |-> NoDispatcher, dispatched |-> NoResult,
     result |-> NoResult, timedOut |-> FALSE, firedAt |-> "-"]

(* ----------------------------- MqttServer ------------------------------ *)
AInit ==
    /\ server \in [disconnect_timeout : Timeouts]
    /\ mqttHandler = NoHandler
    /\ conn = [c \in Conns |-> IdleConn]

\* create_service: awaits connect.new_service(()); on success the MqttHandler
\* carries the server's handler factory and disconnect_timeout.
create_service ==
    /\ ~mqttHandler.built
    /\ \E ok \in BOOLEAN :
        mqttHandler' = IF ok
                       THEN [disconnect_timeout |-> server.disconnect_timeout, built |-> TRUE]
                       ELSE mqttHandler
    /\ UNCHANGED <<server, conn, rvars, wvars>>

(* ----------------------------- MqttHandler ----------------------------- *)
\* A poll that returns Poll::Pending: the task stays at the await it is
\* suspended on, nothing changes.
Pend(r) == r

\* The same for the handshake await; while it lasts, pending counts how often
\* the handshake was polled without completing.
HandshakePend(r) == [r EXCEPT !.pending = @ + 1]

\* The future resolves: return of the async block.
Finish(r, res) == [r EXCEPT !.pc = "done", !.result = res, !.pending = 0]

\* The Sleep moved into select is dropped with it; None stays None.
DropDelay(r) == IF r.delay = "absent" THEN r ELSE [r EXCEPT !.delay = "dropped"]

\* Dispatcher::new(io, codec, handler).keepalive_timeout(ka).disconnect_timeout(timeout)
NewDispatcher(io, codec, handler, ka, timeout) ==
    [io |-> io, codec |-> codec, handler |-> handler,
     keepalive_timeout |-> ka, disconnect_timeout |-> timeout]

\* `.await` on the Dispatcher: its output is the output of the whole future.
AwaitDispatcher(r, d) ==
    IF d.kind = "pending" THEN Pend(r)
    ELSE Finish([r EXCEPT !.dispatched = d], d)

\* Mutant of StartDispatcher: the two timeouts handed over crosswise.
StartDispatcher_swapped(r, d) ==
    AwaitDispatcher(
        [r EXCEPT !.pc = "dispatch",
                  !.dispatchCalls = @ + 1,
                  !.dispatcher = NewDispatcher(r.handshake.io, r.handshake.codec,
                                               r.handler, r.timeout, r.handshake.ka)],
        d)

\* The tail of both call bodies: build the Dispatcher from the handshake's
\* stream and codec and the constructed handler, then await it.
StartDispatcher(r, d) ==
    AwaitDispatcher(
        [r EXCEPT !.pc = "dispatch",
                  !.dispatchCalls = @ + 1,
                  !.dispatcher = NewDispatcher(r.handshake.io, r.handshake.codec,
                                               r.handler, r.handshake.ka, r.timeout)],
        d)

\* handler.new_service(st): the shared factory is invoked with the session.
handler_new_service(r, st) ==
    [r EXCEPT !.pc = "build", !.factoryCalls = @ + 1, !.factoryArg = st, !.pending = 0]

\* Mutant of AwaitHandler: a construction error is logged and dropped.
AwaitHandler_swallow(r, f) ==
    IF f.kind = "pending" THEN Pend(r)
    ELSE IF f.kind = "err" THEN Finish([r EXCEPT !.built = f], OkResult)
    ELSE [r EXCEPT !.built = f, !.handler = r.factoryArg, !.pc = "ready"]

\* `handler.new_service(st).await?`: Pending, Err(e) returned by `?`, or the
\* handler built from the state the factory was given.
AwaitHandler(r, f) ==
    IF f.kind = "pending" THEN Pend(r)
    ELSE IF f.kind = "err" THEN Finish([r EXCEPT !.built = f], f)
    ELSE [r EXCEPT !.built = f, !.handler = r.factoryArg, !.pc = "ready"]

\* Mutant of AwaitHandshake: a handshake error does not stop the block, the
\* handler is built from an empty session.
AwaitHandshake_continue(r, h, f) ==
    IF h.kind = "pending" THEN HandshakePend(r)
    ELSE AwaitHandler(handler_new_service([r EXCEPT !.handshake = h], h.st), f)

\* Mutant of AwaitHandshake: a failed handshake is started again.
AwaitHandshake_retry(r, h, f) ==
    IF h.kind = "pending" THEN HandshakePend(r)
    ELSE IF h.kind = "err"
    THEN [r EXCEPT !.handshake = h, !.connectCalls = @ + 1, !.pending = 0]
    ELSE AwaitHandler(handler_new_service([r EXCEPT !.handshake = h], h.st), f)

\* `handshake.await.map_err(..)?` followed by the handler construction.
AwaitHandshake(r, h, f) ==
    IF h.kind = "pending" THEN HandshakePend(r)
    ELSE IF h.kind = "err" THEN Finish([r EXCEPT !.handshake = h], ErrResult(h.err))
    ELSE AwaitHandler(handler_new_service([r EXCEPT !.handshake = h], h.st), f)

\* The handshake-then-handler block, resumed at the await it is suspended on.
Establish(r, h, f) ==
    IF r.pc = "handshake" THEN AwaitHandshake(r, h, f) ELSE AwaitHandler(r, f)

\* Mutant of select: the inner block is polled before the delay.
select_inner_first(r, h, f) ==
    LET e == Establish(r, h, f)
    IN  IF e.pc \in {"ready", "done"} THEN e
        ELSE IF r.delay = "fired" THEN [r EXCEPT !.pc = "timeout"]
        ELSE e

\* select(delay, inner): the first future, the delay, is polled first; the
\* inner block is polled only when the delay is still pending.
select(r, h, f) ==
    IF r.delay = "fired" THEN [r EXCEPT !.pc = "timeout"] ELSE Establish(r, h, f)

\* One poll of the future returned by Service<IoBoxed>::call.
BoxedFuture(r, h, f, d) ==
    IF r.pc = "dispatch" THEN AwaitDispatcher(r, d)
    ELSE LET e == Establish(r, h, f)
         IN  IF e.pc = "ready" THEN StartDispatcher(e, d) ELSE e

\* Mutant of DelayFuture: a missing deadline is taken for an elapsed one.
DelayFuture_none_elapsed(r, h, f, d) ==
    IF r.pc = "dispatch" THEN AwaitDispatcher(r, d)
    ELSE LET e == IF r.delay = "absent" THEN [r EXCEPT !.pc = "timeout"]
                  ELSE select(r, h, f)
         IN  CASE e.pc = "timeout" ->
                    Finish(DropDelay([e EXCEPT !.timedOut = TRUE]), OkResult)
               [] e.pc = "ready" -> StartDispatcher(DropDelay(e), d)
               [] e.pc = "done" -> DropDelay(e)
               [] OTHER -> e

\* One poll of the future returned by Service<(IoBoxed, Option<Sleep>)>::call.
DelayFuture(r, h, f, d) ==
    IF r.pc = "dispatch" THEN AwaitDispatcher(r, d)
    ELSE LET e == IF r.delay = "absent" THEN Establish(r, h, f) ELSE select(r, h, f)
         IN  CASE e.pc = "timeout" ->
                    Finish(DropDelay([e EXCEPT !.timedOut = TRUE]), OkResult)
               [] e.pc = "ready" -> StartDispatcher(DropDelay(e), d)
               [] e.pc = "done" -> DropDelay(e)
               [] OTHER -> e

\* Mutant of Resolve: an error of one connection ends its siblings too.
Resolve_shared(c, r) ==
    [d \in Conns |->
        IF d = c THEN r
        ELSE IF r.result.kind = "err" /\ conn[d].pc \in {"handshake", "build", "dispatch"}
        THEN Finish(conn[d], r.result)
        ELSE conn[d]]

\* The future of connection c is owned by c's task alone.
Resolve(c, r) == [conn EXCEPT ![c] = r]

\* Entry state of a call: connect.call(io) is made at once, the handler
\* factory and disconnect_timeout are captured.
Entered(c, entry, delay) ==
    [IdleConn EXCEPT !.entry = entry, !.pc = "handshake", !.delay = delay,
                     !.timeout = mqttHandler.disconnect_timeout,
                     !.connectCalls = @ + 1]

\* Service<IoBoxed>::call
MqttHandler_call(c) ==
    /\ mqttHandler.built
    /\ conn[c].pc = "idle"
    /\ conn' = Resolve(c, Entered(c, "boxed", "absent"))
    /\ UNCHANGED <<server, mqttHandler, rvars, wvars>>

\* Service<Io<F>>::call: boxes the io and delegates to Service<IoBoxed>::call
MqttHandler_call_io(c) ==
    /\ mqttHandler.built
    /\ conn[c].pc = "idle"
    /\ conn' = Resolve(c, Entered(c, "boxed", "absent"))
    /\ UNCHANGED <<server, mqttHandler, rvars, wvars>>

\* Service<(IoBoxed, Option<Sleep>)>::call
MqttHandler_call_delay(c) ==
    /\ mqttHandler.built
    /\ conn[c].pc = "idle"
    /\ \E delay \in {"absent", "armed"} :
          conn' = Resolve(c, Entered(c, "delay", delay))
    /\ UNCHANGED <<server, mqttHandler, rvars, wvars>>

\* The Sleep elapses (a timer event, not a step of the task).
DeadlineFires(c) ==
    /\ conn[c].delay = "armed"
    /\ conn' = Resolve(c, [conn[c] EXCEPT !.delay = "fired", !.firedAt = conn[c].pc])
    /\ UNCHANGED <<server, mqttHandler, rvars, wvars>>

\* The futures one poll of the task can reach, and so the outputs to draw:
\* the handshake while awaiting it, the handler construction once the
\* handshake is Ok, the Dispatcher once the handler is built.
PolledHandshake(r, io) ==
    IF r.pc = "handshake" THEN HandshakeOutcomes(io) ELSE {NoHandshake}
PolledHandler(r, h) ==
    IF r.pc = "build" \/ h.kind = "ok" THEN UnitOutcomes ELSE {NoResult}
PolledDispatcher(r, f) ==
    IF r.pc = "dispatch" \/ f.kind = "ok" THEN UnitOutcomes ELSE {NoResult}

\* The executor polls the connection's future.
Poll(c) ==
    /\ conn[c].pc \in {"handshake", "build", "dispatch"}
    /\ \E h \in PolledHandshake(conn[c], c) :
       \E f \in PolledHandler(conn[c], h) :
       \E d \in PolledDispatcher(conn[c], f) :
          LET r == IF conn[c].entry = "delay"
                   THEN DelayFuture(conn[c], h, f, d)
                   ELSE BoxedFuture(conn[c], h, f, d)
          IN  /\ r.pending <= MaxPending
              /\ conn' = Resolve(c, r)
    /\ UNCHANGED <<server, mqttHandler, rvars, wvars>>

ANext ==
    \/ create_service
    \/ \E c \in Conns : MqttHandler_call(c)
    \/ \E c \in Conns : MqttHandler_call_io(c)
    \/ \E c \in Conns : MqttHandler_call_delay(c)
    \/ \E c \in Conns : DeadlineFires(c)
    \/ \E c \in Conns : Poll(c)


(* ------------------------------- Router -------------------------------- *)
NoSlot == [factory |-> "-", session |-> 0]
NoService == [handlers |-> <<>>, default |-> NoSlot]
NoDefault == [kind |-> "none", slot |-> NoSlot, out |-> "-"]

\* The service passed to the k-th resource() call (k = 0, 1, ..): each call
\* moves in a service object of its own.
ServiceName(k) == "H" \o ToString(k)

\* Errors carry their origin: the factory or slot that raised them.
ErrorOf(factory) == "E:" \o factory

\* The HandlerService a factory builds for a session.
SlotOf(factory, session) == [factory |-> factory, session |-> session]

\* No task polls the session's RouterService (yet).
NoTask == [state |-> "none", woken |-> FALSE]

IdleSession ==
    [state |-> "none", default |-> NoDefault, elems |-> <<>>,
     service |-> NoService, error |-> NoResult]

NoLast ==
    [op |-> "none", session |-> 0, service |-> "-",
     reports |-> <<>>, defaultPolled |-> FALSE,
     defaultReady |-> "-", topic |-> <<>>, invoked |-> <<>>,
     handlerResult |-> NoResult, result |-> NoResult]

\* Router::new: no routes, the built-in default service.
RInit ==
    /\ phase = "config"
    /\ router = <<>>
    /\ handlers = <<>>
    /\ default = "builtin"
    /\ sess = [s \in Sessions |-> IdleSession]
    /\ last = NoLast
    /\ slots = [s \in Sessions |-> <<>>]
    /\ task = [s \in Sessions |-> NoTask]

\* Mutant of resource: a route can still be registered on the compiled factory.
resource_after_compile(address) ==
    /\ Len(handlers) < MaxRoutes
    /\ router' = Append(router, [pattern |-> address, idx |-> Len(handlers)])
    /\ handlers' = Append(handlers, ServiceName(Len(handlers)))
    /\ UNCHANGED <<phase, default, sess, last, avars, wvars>>

\* Router::resource: router.path(address, handlers.len()); handlers.push(..)
resource(address) ==
    /\ phase = "config"
    /\ Len(handlers) < MaxRoutes
    /\ router' = Append(router, [pattern |-> address, idx |-> Len(handlers)])
    /\ handlers' = Append(handlers, ServiceName(Len(handlers)))
    /\ UNCHANGED <<phase, default, sess, last, avars, wvars>>

\* Mutant of default_resource: a default already set by the user is kept.
default_resource_first_wins(service) ==
    /\ phase = "config"
    /\ default' = IF default = "builtin" THEN service ELSE default
    /\ last' = [NoLast EXCEPT !.op = "default_resource", !.service = service]
    /\ UNCHANGED <<phase, router, handlers, sess, avars, wvars>>

\* Router::default_resource: replaces the default factory
default_resource(service) ==
    /\ phase = "config"
    /\ default' = service
    /\ last' = [NoLast EXCEPT !.op = "default_resource", !.service = service]
    /\ UNCHANGED <<phase, router, handlers, sess, avars, wvars>>

\* IntoServiceFactory::into_factory: router.finish(), handlers and default
\* moved into the RouterFactory; the builder is consumed.
into_factory ==
    /\ phase = "config"
    /\ phase' = "compiled"
    /\ UNCHANGED <<router, handlers, default, sess, last, avars, wvars>>

\* The future h.new_service(session.clone()) of one per-route factory.
HandlerFut(factory, session) ==
    [kind |-> "pending", slot |-> SlotOf(factory, session), err |-> "-",
     polled |-> FALSE]

\* Mutant of new_service: the per-route futures are collected back to front.
new_service_reversed(s) ==
    /\ phase = "compiled"
    /\ sess[s].state = "none"
    /\ sess' = [sess EXCEPT ![s] =
          [IdleSession EXCEPT
              !.state = "building",
              !.elems = [k \in 1..Len(handlers) |->
                            HandlerFut(handlers[Len(handlers) + 1 - k], s)],
              !.default = [kind |-> "left", slot |-> SlotOf(default, s), out |-> "-"]]]
    /\ UNCHANGED <<phase, router, handlers, default, last, avars, wvars>>

\* The RouterFactoryFut that RouterFactory::new_service returns: one future
\* per handler factory, in order, under join_all; the default's future in
\* Either::Left.
NewRouterFactoryFut(s) ==
    [IdleSession EXCEPT
        !.state = "building",
        !.elems = [k \in 1..Len(handlers) |-> HandlerFut(handlers[k], s)],
        !.default = [kind |-> "left", slot |-> SlotOf(default, s), out |-> "-"]]

\* RouterFactory::new_service
new_service(s) ==
    /\ phase = "compiled"
    /\ sess[s].state = "none"
    /\ sess' = [sess EXCEPT ![s] = NewRouterFactoryFut(s)]
    /\ UNCHANGED <<phase, router, handlers, default, last, avars, wvars>>

\* Outputs a poll of a construction future can give.
BuildOutcomes == {"pending", "ok", "err"}

\* JoinAll::poll: every element not yet done is polled and keeps its output.
JoinAllPoll(elems, outs) ==
    [k \in 1..Len(elems) |->
        IF elems[k].kind # "pending" THEN elems[k]
        ELSE IF outs[k] = "err"
             THEN [elems[k] EXCEPT !.kind = "err", !.polled = TRUE,
                                   !.err = ErrorOf(elems[k].slot.factory)]
             ELSE [elems[k] EXCEPT !.kind = outs[k], !.polled = TRUE]]

\* `for handler in res`: the first Err in index order, NoResult when none.
RECURSIVE FirstErr(_)
FirstErr(res) ==
    IF res = <<>> THEN NoResult
    ELSE IF Head(res).kind = "err" THEN ErrResult(Head(res).err)
    ELSE FirstErr(Tail(res))

\* Mutant of PollRight: a failed route is left out, the router is built from
\* the slots that did construct.
PollRight_partial(f, outs) ==
    LET res == JoinAllPoll(f.elems, outs)
        oks == SelectSeq(res, LAMBDA e : e.kind = "ok")
    IN  IF \E k \in 1..Len(res) : res[k].kind = "pending"
        THEN [f EXCEPT !.elems = res]
        ELSE [f EXCEPT !.elems = res,
                       !.state = "ready",
                       !.service = [handlers |-> [k \in 1..Len(oks) |-> oks[k].slot],
                                    default |-> f.default.slot],
                       !.default = [f.default EXCEPT !.kind = "taken"]]

\* Mutant of PollRight: the first error seen ends the construction, whatever
\* is still under way.
PollRight_fail_fast(f, outs) ==
    LET res == JoinAllPoll(f.elems, outs)
    IN  IF FirstErr(res).kind = "err"
        THEN [f EXCEPT !.elems = res, !.state = "failed", !.error = FirstErr(res)]
        ELSE IF \E k \in 1..Len(res) : res[k].kind = "pending"
        THEN [f EXCEPT !.elems = res]
        ELSE [f EXCEPT !.elems = res,
                       !.state = "ready",
                       !.service = [handlers |-> [k \in 1..Len(res) |-> res[k].slot],
                                    default |-> f.default.slot],
                       !.default = [f.default EXCEPT !.kind = "taken"]]

\* RouterFactoryFut::poll with the default already Either::Right.
PollRight(f, outs) ==
    LET res == JoinAllPoll(f.elems, outs)
    IN  IF \E k \in 1..Len(res) : res[k].kind = "pending"
        THEN [f EXCEPT !.elems = res]
        ELSE IF FirstErr(res).kind = "err"
        THEN [f EXCEPT !.elems = res, !.state = "failed", !.error = FirstErr(res)]
        ELSE [f EXCEPT !.elems = res,
                       !.state = "ready",
                       !.service = [handlers |-> [k \in 1..Len(res) |-> res[k].slot],
                                    default |-> f.default.slot],
                       !.default = [f.default EXCEPT !.kind = "taken"]]

\* Mutant of RouterFactoryFut_poll: an error of a route is preferred to the
\* default's.
RouterFactoryFut_poll_routes_win(f, dd, outs) ==
    IF f.default.kind = "left"
    THEN IF dd = "pending" THEN f
         ELSE IF dd = "err"
         THEN LET res == JoinAllPoll(f.elems, outs)
              IN  [f EXCEPT !.state = "failed", !.default.out = "err",
                            !.error = IF FirstErr(res).kind = "err" THEN FirstErr(res)
                                      ELSE ErrResult(ErrorOf(f.default.slot.factory))]
         ELSE PollRight([f EXCEPT !.default.kind = "right", !.default.out = "ok"], outs)
    ELSE PollRight(f, outs)

\* Mutant of RouterFactoryFut_poll: one flat join, the routes are polled
\* along with a default that is still pending.
RouterFactoryFut_poll_flat(f, dd, outs) ==
    IF f.default.kind = "left"
    THEN IF dd = "pending" THEN [f EXCEPT !.elems = JoinAllPoll(f.elems, outs)]
         ELSE IF dd = "err"
         THEN [f EXCEPT !.state = "failed", !.default.out = "err",
                        !.error = ErrResult(ErrorOf(f.default.slot.factory))]
         ELSE PollRight([f EXCEPT !.default.kind = "right", !.default.out = "ok"], outs)
    ELSE PollRight(f, outs)

\* RouterFactoryFut::poll: the default's future while Either::Left, its
\* output kept in default.out; on Ok it becomes Either::Right and poll
\* starts over.
RouterFactoryFut_poll(f, dd, outs) ==
    IF f.default.kind = "left"
    THEN IF dd = "pending" THEN f
         ELSE IF dd = "err"
         THEN [f EXCEPT !.state = "failed", !.default.out = "err",
                        !.error = ErrResult(ErrorOf(f.default.slot.factory))]
         ELSE PollRight([f EXCEPT !.default.kind = "right", !.default.out = "ok"], outs)
    ELSE PollRight(f, outs)

\* The built-in default (fn_service .. map_init_err(|_| panic!())) never
\* fails to construct.
DefaultOutcomes(f) ==
    IF f.default.kind # "left" THEN {"pending"}
    ELSE IF f.default.slot.factory = "builtin" THEN {"pending", "ok"}
    ELSE BuildOutcomes

\* The per-route futures a poll can reach: those not yet done, and only once
\* the default is constructed (dd = "ok") or already Either::Right.
PolledElems(f, dd) ==
    {outs \in [1..Len(f.elems) -> BuildOutcomes] :
        \A k \in 1..Len(f.elems) :
            outs[k] # "pending" =>
                /\ f.elems[k].kind = "pending"
                /\ f.default.kind = "right" \/ dd = "ok"}

PollFut(s) ==
    /\ sess[s].state = "building"
    /\ \E dd \in DefaultOutcomes(sess[s]) :
       \E outs \in PolledElems(sess[s], dd) :
          sess' = [sess EXCEPT ![s] = RouterFactoryFut_poll(sess[s], dd, outs)]
    /\ UNCHANGED <<phase, router, handlers, default, last, avars, wvars>>


(* ---------------------------- RouterService ---------------------------- *)
\* Readiness a slot's poll_ready can report: Ready(Ok), Pending, Ready(Err).
ReadyOutcomes == {"ready", "pending", "err"}

RECURSIVE ReadyLoop(_, _, _, _, _)

\* Mutant of ReadyLoop: the loop is left at the first slot that is not ready.
ReadyLoop_break_on_pending(hs, outs, k, not_ready, reports) ==
    IF k > Len(hs)
    THEN [reports |-> reports, defaultPolled |-> FALSE,
          result |-> IF not_ready THEN PendingPoll ELSE OkResult]
    ELSE IF outs[k] = "err"
    THEN [reports |-> Append(reports, "err"), defaultPolled |-> FALSE,
          result |-> ErrResult(ErrorOf(hs[k].factory))]
    ELSE IF outs[k] = "pending"
    THEN [reports |-> Append(reports, "pending"), defaultPolled |-> FALSE,
          result |-> PendingPoll]
    ELSE ReadyLoop(hs, outs, k + 1, not_ready, Append(reports, outs[k]))

\* The `for hnd in &self.handlers` loop of poll_ready from slot k on: `?`
\* returns a slot's error at once; Pending only sets not_ready.
ReadyLoop(hs, outs, k, not_ready, reports) ==
    IF k > Len(hs)
    THEN [reports |-> reports, defaultPolled |-> FALSE,
          result |-> IF not_ready THEN PendingPoll ELSE OkResult]
    ELSE IF outs[k] = "err"
    THEN [reports |-> Append(reports, "err"), defaultPolled |-> FALSE,
          result |-> ErrResult(ErrorOf(hs[k].factory))]
    ELSE ReadyLoop(hs, outs, k + 1, not_ready \/ outs[k] = "pending",
                   Append(reports, outs[k]))

\* Mutant of RouterService_poll_ready: the loop ends at the first slot that is
\* not ready.
RouterService_poll_ready_first_pending(svc, outs, dout) ==
    LET n == Len(svc.handlers)
        stop == {k \in 1..n : outs[k] # "ready"}
        m == IF stop = {} THEN n ELSE CHOOSE k \in stop : \A j \in stop : k <= j
    IN  [reports |-> [k \in 1..m |-> outs[k]], defaultPolled |-> FALSE,
         result |-> IF stop = {} THEN OkResult
                    ELSE IF outs[m] = "err" THEN ErrResult(ErrorOf(svc.handlers[m].factory))
                    ELSE PendingPoll]

\* Mutant of RouterService_poll_ready: the default slot is polled as well.
RouterService_poll_ready_all(svc, outs, dout) ==
    LET r == ReadyLoop(svc.handlers, outs, 1, FALSE, <<>>)
    IN  IF r.result.kind = "err" THEN r
        ELSE [r EXCEPT !.defaultPolled = TRUE,
                       !.result = IF dout = "err" THEN ErrResult(ErrorOf(svc.default.factory))
                                  ELSE IF dout = "pending" THEN PendingPoll
                                  ELSE r.result]

\* RouterService::poll_ready; dout is what the default slot would report.
RouterService_poll_ready(svc, outs, dout) ==
    ReadyLoop(svc.handlers, outs, 1, FALSE, <<>>)

\* The readiness the slots would report; a slot behind the first error is
\* not reached by the loop, so one value stands for what it would report.
PolledSlots(svc) ==
    {outs \in [1..Len(svc.handlers) -> ReadyOutcomes] :
        \A k \in 1..Len(svc.handlers) :
            outs[k] = "err" => \A j \in (k + 1)..Len(svc.handlers) : outs[j] = "ready"}

poll_ready(s) ==
    /\ sess[s].state = "ready"
    /\ \E outs \in PolledSlots(sess[s].service) :
       \E dout \in ReadyOutcomes :
          LET r == RouterService_poll_ready(sess[s].service, outs, dout)
          IN  last' = [NoLast EXCEPT !.op = "poll_ready", !.session = s,
                                     !.reports = r.reports,
                                     !.defaultPolled = r.defaultPolled,
                                     !.defaultReady = dout,
                                     !.result = r.result]
    /\ UNCHANGED <<phase, router, handlers, default, sess, avars, wvars>>

\* The external matcher's pattern semantics: "+" matches one level, "#" the
\* rest of the topic.
RECURSIVE Matches(_, _)
Matches(p, t) ==
    IF p = <<>> THEN t = <<>>
    ELSE IF Head(p) = "#" THEN TRUE
    ELSE /\ t # <<>>
         /\ Head(p) \in {"+", Head(t)}
         /\ Matches(Tail(p), Tail(t))

NoMatch == [found |-> FALSE, idx |-> 0]

\* router.recognize(topic): Some(idx) of a registered entry whose pattern
\* matches, None when none matches. Which entry wins when several match is
\* the matcher's rule; every choice is allowed here.
recognize(rt, topic) ==
    LET hits == {[found |-> TRUE, idx |-> rt[k].idx] :
                    k \in {j \in 1..Len(rt) : Matches(rt[j].pattern, topic)}}
    IN  IF hits = {} THEN {NoMatch} ELSE hits

\* What a slot's call returns: Ok(()) or the slot's own error; the built-in
\* default acks every publish.
HandlerCall(slot, ok) ==
    IF ok \/ slot.factory = "builtin" THEN OkResult
    ELSE ErrResult(ErrorOf(slot.factory))

\* Mutant of RouterService_call: the index is counted from the end.
RouterService_call_reversed(svc, m, ok) ==
    LET slot == IF m.found THEN svc.handlers[Len(svc.handlers) - m.idx]
                ELSE svc.default
    IN  [invoked |-> <<slot>>,
         handlerResult |-> HandlerCall(slot, ok),
         result |-> HandlerCall(slot, ok)]

\* Mutant of RouterService_call: an unmatched topic is an error of the router.
RouterService_call_not_found(svc, m, ok) ==
    IF m.found
    THEN [invoked |-> <<svc.handlers[m.idx + 1]>>,
          handlerResult |-> HandlerCall(svc.handlers[m.idx + 1], ok),
          result |-> HandlerCall(svc.handlers[m.idx + 1], ok)]
    ELSE [invoked |-> <<>>, handlerResult |-> NoResult,
          result |-> ErrResult("RouteNotFound")]

\* RouterService::call: the slot at the recognized index, else the default;
\* the slot's future is returned as is.
RouterService_call(svc, m, ok) ==
    LET slot == IF m.found THEN svc.handlers[m.idx + 1] ELSE svc.default
    IN  [invoked |-> <<slot>>,
         handlerResult |-> HandlerCall(slot, ok),
         result |-> HandlerCall(slot, ok)]

call(s, topic) ==
    /\ sess[s].state = "ready"
    /\ \E m \in recognize(router, topic) :
       \E ok \in BOOLEAN :
          LET r == RouterService_call(sess[s].service, m, ok)
          IN  last' = [NoLast EXCEPT !.op = "call", !.session = s,
                                     !.topic = topic,
                                     !.invoked = r.invoked,
                                     !.handlerResult = r.handlerResult,
                                     !.result = r.result]
    /\ UNCHANGED <<phase, router, handlers, default, sess, avars, wvars>>

RNext ==
    \/ \E address \in Patterns : resource(address)
    \/ \E service \in DefaultServices : default_resource(service)
    \/ into_factory
    \/ \E s \in Sessions : new_service(s)
    \/ \E s \in Sessions : PollFut(s)
    \/ \E s \in Sessions : poll_ready(s)
    \/ \E s \in Sessions, topic \in Topics : call(s, topic)

(* --------------------- readiness and wake-ups -------------------------- *)
\* A per-route slot as its poll_ready sees it: not ready, ready or failed,
\* and whether it holds the waker of the task that polled it while not ready.
PendingSlot == [state |-> "pending", waker |-> FALSE]

\* What the slots of session s report when polled now.
SlotReports(s) ==
    [k \in 1..Len(slots[s]) |->
        IF slots[s][k].state = "pending" THEN "pending" ELSE slots[s][k].state]

\* hnd.poll_ready(cx) on a slot that is not ready stores cx's waker; a slot
\* the loop did not reach stores nothing.
Registered(sl, reports) ==
    [k \in 1..Len(sl) |->
        IF k <= Len(reports) /\ reports[k] = "pending"
        THEN [sl[k] EXCEPT !.waker = TRUE]
        ELSE sl[k]]

\* The task of session s is polled: it calls RouterService::poll_ready and
\* parks on Pending.
poll_ready_task(s) ==
    /\ task[s].state = "runnable"
    /\ \E dout \in ReadyOutcomes :
          LET r == RouterService_poll_ready(sess[s].service, SlotReports(s), dout)
          IN  /\ slots' = [slots EXCEPT ![s] = Registered(slots[s], r.reports)]
              /\ task' = [task EXCEPT ![s].state =
                              CASE r.result.kind = "pending" -> "parked"
                                [] r.result.kind = "ok" -> "ready"
                                [] OTHER -> "failed"]
              /\ last' = [NoLast EXCEPT !.op = "poll_ready", !.session = s,
                                         !.reports = r.reports,
                                         !.defaultPolled = r.defaultPolled,
                                         !.defaultReady = dout,
                                         !.result = r.result]
    /\ UNCHANGED <<phase, router, handlers, default, sess, avars>>

\* Slot k of session s becomes ready, or fails; the waker it holds, if any,
\* is woken: a parked task becomes runnable again.
SlotResolves(s, k) ==
    /\ k \in 1..Len(slots[s])
    /\ slots[s][k].state = "pending"
    /\ \E out \in {"ready", "err"} :
          slots' = [slots EXCEPT ![s][k] = [state |-> out, waker |-> FALSE]]
    /\ task' = IF slots[s][k].waker /\ task[s].state = "parked"
               THEN [task EXCEPT ![s] = [state |-> "runnable", woken |-> TRUE]]
               ELSE task
    /\ UNCHANGED <<rvars, avars>>

WNext ==
    \/ \E s \in Sessions : poll_ready_task(s)
    \/ \E s \in Sessions, k \in 1..MaxRoutes : SlotResolves(s, k)

\* The compiled factories: up to MaxRoutes routes registered in any order
\* with any patterns, the built-in or a user default.
CompiledRouter(ps) == [k \in 1..Len(ps) |-> [pattern |-> ps[k], idx |-> k - 1]]

\* A session whose RouterService has just been constructed, with a task about
\* to poll it for readiness; nothing is known of its slots' readiness yet.
WInit ==
    /\ phase = "compiled"
    /\ \E n \in 0..MaxRoutes : \E ps \in [1..n -> Patterns] :
          /\ router = CompiledRouter(ps)
          /\ handlers = [k \in 1..n |-> ServiceName(k - 1)]
    /\ default \in DefaultServices \cup {"builtin"}
    /\ last = NoLast
    /\ \E s \in Sessions :
          /\ sess = [t \in Sessions |->
                        IF t = s
                        THEN RouterFactoryFut_poll(NewRouterFactoryFut(s), "ok",
                                                   [k \in 1..Len(handlers) |-> "ok"])
                        ELSE IdleSession]
          /\ slots = [t \in Sessions |->
                        IF t = s THEN [k \in 1..Len(handlers) |-> PendingSlot]
                        ELSE <<>>]
          /\ task = [t \in Sessions |->
                        IF t = s THEN [state |-> "runnable", woken |-> FALSE]
                        ELSE NoTask]

(* --------------------------- specifications ---------------------------- *)
Init == AInit /\ RInit

\* The connection acceptor alone (the router stays unconfigured).
SpecAcceptor == Init /\ [][ANext]_vars

\* The router alone (no connection is accepted).
SpecRouter == Init /\ [][RNext]_vars

\* One constructed session Router and the task that waits for its readiness:
\* the executor polls a task that is runnable (first poll, or woken).
InitReadiness == AInit /\ WInit

SpecReadiness ==
    /\ InitReadiness
    /\ [][WNext]_vars
    /\ \A s \in Sessions : WF_vars(poll_ready_task(s))


(* ------------------------- acceptor properties ------------------------- *)
\* C1: when the deadline fires while the handshake has not completed, the
\* handler factory and the Dispatcher are never invoked for that connection
\* and the call can only still be waiting to be polled or have resolved to
\* Ok(()) by the timeout branch.
C1_DeadlineBeforeHandshake ==
    \A c \in Conns :
        conn[c].firedAt = "handshake" =>
            /\ conn[c].factoryCalls = 0
            /\ conn[c].dispatchCalls = 0
            /\ conn[c].pc \in {"handshake", "done"}
            /\ conn[c].pc = "done" => conn[c].result = OkResult /\ conn[c].timedOut
            /\ conn[c].pc = "handshake" => conn[c].result = NoResult

\* C1 witness: a call timed out during the handshake and resolved to Ok(()).
C1_Witness ==
    \E c \in Conns :
        /\ conn[c].firedAt = "handshake"
        /\ conn[c].pc = "done"
        /\ conn[c].result = OkResult
        /\ conn[c].connectCalls = 1

\* C2: on either entry point, when the handler construction has failed with
\* E after a successful handshake, the call has resolved to Err(E) and the
\* Dispatcher was not invoked.
C2_ConstructionErrorPropagates ==
    \A c \in Conns :
        conn[c].built.kind = "err" =>
            /\ conn[c].handshake.kind = "ok"
            /\ conn[c].pc = "done"
            /\ conn[c].result = ErrResult(conn[c].built.err)
            /\ conn[c].dispatchCalls = 0
            /\ conn[c].dispatcher = NoDispatcher

\* C2 witness: a construction failure on the entry without deadline and one
\* on the entry with a deadline supplied.
C2_Witness ==
    \E c, d \in Conns :
        /\ conn[c].entry = "boxed" /\ conn[c].built.kind = "err"
        /\ conn[d].entry = "delay" /\ conn[d].delay = "dropped"
        /\ conn[d].built.kind = "err" /\ conn[d].pc = "done"

\* C3: the deadline governs only the handshake step: once the handshake has
\* completed successfully the call does not resolve before the handler
\* construction has completed, and after a successful construction the
\* Dispatcher has been invoked, whenever the deadline fires.
C3_DeadlineOnlyHandshake ==
    \A c \in Conns :
        conn[c].handshake.kind = "ok" =>
            /\ conn[c].factoryCalls = 1
            /\ conn[c].factoryArg = conn[c].handshake.st
            /\ conn[c].pc = "done" => conn[c].built.kind \in {"ok", "err"}
            /\ conn[c].built.kind = "ok" => conn[c].dispatchCalls = 1

\* C4: when the handshake has resolved to Err(E), the call has resolved to
\* Err(E) and neither the handler factory nor the Dispatcher was invoked.
C4_HandshakeErrorPropagates ==
    \A c \in Conns :
        conn[c].handshake.kind = "err" =>
            /\ conn[c].pc = "done"
            /\ conn[c].result = ErrResult(conn[c].handshake.err)
            /\ ~conn[c].timedOut
            /\ conn[c].factoryCalls = 0
            /\ conn[c].dispatchCalls = 0

\* C4 witness: a handshake error on the entry without deadline and one on
\* the entry with a deadline that had not fired.
C4_Witness ==
    \E c, d \in Conns :
        /\ conn[c].entry = "boxed" /\ conn[c].handshake.kind = "err"
        /\ conn[d].entry = "delay" /\ conn[d].delay = "dropped"
        /\ conn[d].firedAt = "-" /\ conn[d].handshake.kind = "err"

\* C5: with no deadline the call has not resolved and has invoked neither
\* the handler factory nor the Dispatcher as long as the handshake has not
\* completed, however often it was polled; it never takes the timeout branch.
C5_NoDeadlineWaits ==
    \A c \in Conns :
        conn[c].pc # "idle" /\ conn[c].delay = "absent" =>
            /\ ~conn[c].timedOut
            /\ conn[c].handshake.kind = "none" =>
                  /\ conn[c].pc = "handshake"
                  /\ conn[c].result = NoResult
                  /\ conn[c].factoryCalls = 0
                  /\ conn[c].dispatchCalls = 0

\* C5 witness: both entries without deadline still wait after the handshake
\* was polled MaxPending times.
C5_Witness ==
    \E c, d \in Conns :
        /\ conn[c].entry = "boxed" /\ conn[d].entry = "delay"
        /\ \A x \in {c, d} :
              /\ conn[x].delay = "absent"
              /\ conn[x].pc = "handshake"
              /\ conn[x].pending = MaxPending

\* C6: the Dispatcher is created once, with the handshake's stream and codec,
\* the handler built from the handshake's state, keepalive_timeout = the
\* negotiated keepalive and disconnect_timeout = the acceptor's value; the
\* call resolves to the Dispatcher's result.
C6_DispatcherHandoff ==
    \A c \in Conns :
        conn[c].dispatchCalls > 0 =>
            /\ conn[c].dispatchCalls = 1
            /\ conn[c].handshake.kind = "ok" /\ conn[c].built.kind = "ok"
            /\ conn[c].dispatcher.io = c /\ conn[c].handshake.io = c
            /\ conn[c].dispatcher.codec = conn[c].handshake.codec
            /\ conn[c].dispatcher.handler = conn[c].handshake.st
            /\ conn[c].dispatcher.keepalive_timeout = conn[c].handshake.ka
            /\ conn[c].dispatcher.disconnect_timeout = server.disconnect_timeout
            /\ conn[c].pc \in {"dispatch", "done"}
            /\ conn[c].pc = "dispatch" => conn[c].result = NoResult
            /\ conn[c].pc = "done" =>
                  /\ conn[c].dispatched.kind \in {"ok", "err"}
                  /\ conn[c].result = conn[c].dispatched

\* C6 witness: one call resolved to the Dispatcher's error, another to its
\* success.
C6_Witness ==
    \E c, d \in Conns :
        /\ conn[c].pc = "done" /\ conn[c].dispatched.kind = "err"
        /\ conn[d].pc = "done" /\ conn[d].dispatched.kind = "ok"
        /\ conn[d].entry = "delay" /\ conn[d].delay = "dropped"

\* r2 is a state the connection can move to on its own from local state r:
\* by being called, by its own deadline firing, or by a poll of its future.
SoloStep(c, r, r2) ==
    IF r.pc = "idle"
    THEN r2 \in {Entered(c, "boxed", "absent"), Entered(c, "delay", "absent"),
                 Entered(c, "delay", "armed")}
    ELSE \/ r.delay = "armed" /\ r2 = [r EXCEPT !.delay = "fired", !.firedAt = r.pc]
         \/ \E h \in PolledHandshake(r, c) :
            \E f \in PolledHandler(r, h) :
            \E d \in PolledDispatcher(r, f) :
               r2 = IF r.entry = "delay" THEN DelayFuture(r, h, f, d)
                                         ELSE BoxedFuture(r, h, f, d)

\* C7: a step changes at most one connection, and changes it as that
\* connection could move were it alone: no outcome of one connection
\* (handshake error, timeout, construction error, Dispatcher error) touches
\* another connection or the shared MqttHandler.
C7_ConnectionsIndependent ==
    [][\A c \in Conns :
          conn'[c] # conn[c] =>
              /\ \A d \in Conns \ {c} : conn'[d] = conn[d]
              /\ SoloStep(c, conn[c], conn'[c])
              /\ mqttHandler' = mqttHandler
              /\ server' = server]_vars

\* C7 witness: one connection failed or timed out while its sibling, accepted
\* before that, went on to its Dispatcher with its own session.
C7_Witness ==
    \E c, d \in Conns :
        /\ c # d
        /\ conn[c].pc = "done"
        /\ conn[c].result.kind = "err" \/ conn[c].timedOut
        /\ conn[d].pc = "done" /\ conn[d].dispatched = OkResult
        /\ conn[d].handshake.st # conn[c].handshake.st

(* -------------------------- router properties -------------------------- *)
\* The registered entries whose pattern matches the topic.
MatchingEntries(topic) ==
    {k \in 1..Len(router) : Matches(router[k].pattern, topic)}

\* The slot a session holds for the entry registered k-th.
EntrySlot(k, s) == SlotOf(handlers[router[k].idx + 1], s)

\* C8 as stated: every registered pair whose pattern matches the topic has
\* its handler invoked, exactly once, and no other handler is.
C8_EveryMatchingPairInvoked ==
    last.op = "call" =>
        \A k \in MatchingEntries(last.topic) :
            /\ last.invoked = <<EntrySlot(k, last.session)>>
            /\ last.result = last.handlerResult

\* C8 amended: a publish matching at least one registered pattern invokes
\* exactly one handler, once: the slot of one of the matching pairs (that of
\* the pair when only one matches), never the default, and returns what that
\* handler returned.
C8_OneMatchingPairInvoked ==
    last.op = "call" /\ MatchingEntries(last.topic) # {} =>
        /\ Len(last.invoked) = 1
        /\ \E k \in MatchingEntries(last.topic) :
              /\ last.invoked[1] = EntrySlot(k, last.session)
              /\ last.invoked[1] =
                    sess[last.session].service.handlers[router[k].idx + 1]
        /\ last.invoked[1] # sess[last.session].service.default
        /\ last.handlerResult \in
              {OkResult, ErrResult(ErrorOf(last.invoked[1].factory))}
        /\ last.result = last.handlerResult

\* C8 witness: two registered patterns match the published topic and the
\* handler's error came back from the router.
C8_Witness ==
    /\ last.op = "call"
    /\ Cardinality(MatchingEntries(last.topic)) = 2
    /\ router[1].pattern # router[2].pattern
    /\ Len(last.invoked) = 1
    /\ last.result.kind = "err"

\* C9: a publish matching no registered pattern is handed to the session's
\* default slot, once, and to no per-route slot; the default's result is
\* returned.
C9_UnmatchedToDefault ==
    last.op = "call" /\ MatchingEntries(last.topic) = {} =>
        /\ last.invoked = <<SlotOf(default, last.session)>>
        /\ last.invoked[1] = sess[last.session].service.default
        /\ last.handlerResult \in {OkResult, ErrResult(ErrorOf(default))}
        /\ last.result = last.handlerResult

\* C9 witness: routes are registered, none matches, and a user default
\* handled the publish.
C9_Witness ==
    /\ last.op = "call"
    /\ Len(router) = MaxRoutes
    /\ MatchingEntries(last.topic) = {}
    /\ default \in DefaultServices
    /\ last.invoked = <<SlotOf(default, last.session)>>
    /\ last.result.kind = "err"

\* C10 as stated: poll_ready is Pending exactly when some per-route slot
\* reported not-ready.
C10_PendingIffSomeSlotPending ==
    last.op = "poll_ready" =>
        (last.result = PendingPoll
            <=> \E k \in 1..Len(last.reports) : last.reports[k] = "pending")

\* C10 amended: poll_ready is Pending exactly when some per-route slot
\* reported not-ready and none reported an error; the error of the first
\* slot reporting one is returned at once; the default slot is not polled and
\* its readiness changes nothing.
C10_PendingIffPendingAndNoError ==
    last.op = "poll_ready" =>
        LET n == Len(sess[last.session].service.handlers)
            errs == {k \in 1..Len(last.reports) : last.reports[k] = "err"}
            pend == {k \in 1..Len(last.reports) : last.reports[k] = "pending"}
        IN  /\ ~last.defaultPolled
            /\ last.result = PendingPoll <=> (pend # {} /\ errs = {})
            /\ last.result = OkResult <=> (pend = {} /\ errs = {})
            /\ errs = {} => Len(last.reports) = n
            /\ errs # {} =>
                  /\ errs = {Len(last.reports)}
                  /\ last.result = ErrResult(ErrorOf(handlers[Len(last.reports)]))

\* C10 witness: the default slot was not ready, every per-route slot was, and
\* poll_ready reported ready.
C10_Witness ==
    /\ last.op = "poll_ready"
    /\ Len(last.reports) = MaxRoutes
    /\ last.defaultReady = "pending"
    /\ last.result = OkResult

(* ----------------------- readiness, construction ----------------------- *)
\* C11 as stated: every poll_ready call polls every per-route slot, whatever
\* the slots polled earlier in the call reported.
C11_EverySlotPolled ==
    last.op = "poll_ready" =>
        Len(last.reports) = Len(sess[last.session].service.handlers)

\* C11 amended: a poll_ready call polls the per-route slots in order up to
\* and including the first that reports an error; a slot that is not ready
\* never ends the loop, so a call that returns Pending or Ready(Ok) has polled
\* every slot, and only an error leaves the slots behind it unpolled.
C11_EverySlotPolledUnlessError ==
    last.op = "poll_ready" =>
        LET n == Len(sess[last.session].service.handlers)
            m == Len(last.reports)
        IN  /\ m <= n
            /\ \A k \in 1..(m - 1) : last.reports[k] \in {"ready", "pending"}
            /\ last.result.kind # "err" => m = n
            /\ m < n => /\ last.reports[m] = "err"
                        /\ last.result = ErrResult(ErrorOf(handlers[m]))

\* C11 witness: the first slot was not ready and the slots behind it were
\* polled all the same, the last one not ready either.
C11_Witness ==
    /\ last.op = "poll_ready"
    /\ Len(last.reports) = MaxRoutes
    /\ last.reports[1] = "pending"
    /\ last.reports[MaxRoutes] = "pending"
    /\ last.result = PendingPoll

\* The errors the construction futures of session s have yielded.
SlotErrors(s) ==
    (IF sess[s].default.out = "err" THEN {ErrorOf(sess[s].default.slot.factory)} ELSE {})
    \cup {sess[s].elems[k].err :
            k \in {j \in 1..Len(sess[s].elems) : sess[s].elems[j].kind = "err"}}

\* The failed per-route constructions of session s, by position.
FailedElems(s) == {k \in 1..Len(sess[s].elems) : sess[s].elems[k].kind = "err"}

\* The error of the failed route registered first.
LowestError(s) ==
    LET m == CHOOSE k \in FailedElems(s) : \A j \in FailedElems(s) : k <= j
    IN  ErrResult(ErrorOf(handlers[m]))

\* C12 as stated: a resolved construction has failed with E exactly when the
\* default's or some route's factory failed with E, and has succeeded exactly
\* when the default and every route succeeded.
C12_FailsIffSomeSlotFails ==
    \A s \in Sessions :
        sess[s].state \in {"ready", "failed"} =>
            /\ \A e \in SlotErrors(s) :
                  sess[s].state = "failed" /\ sess[s].error = ErrResult(e)
            /\ sess[s].state = "failed" => sess[s].error.err \in SlotErrors(s)
            /\ sess[s].state = "ready" <=>
                  /\ sess[s].default.out = "ok"
                  /\ \A k \in 1..Len(sess[s].elems) : sess[s].elems[k].kind = "ok"

\* C12 amended: construction has failed exactly when the default's factory
\* failed, or the default succeeded, every route completed and some route
\* failed; the error is the default's, else that of the failed route
\* registered first (a later route's error is discarded with the successes).
\* It has succeeded exactly when the default and every route succeeded.
C12_FailsWithDefaultOrFirstRouteError ==
    \A s \in Sessions :
        LET pend == {k \in 1..Len(sess[s].elems) : sess[s].elems[k].kind = "pending"}
        IN  /\ sess[s].state = "failed" <=>
                  \/ sess[s].default.out = "err"
                  \/ sess[s].default.out = "ok" /\ pend = {} /\ FailedElems(s) # {}
            /\ sess[s].state = "failed" =>
                  /\ sess[s].error =
                        IF sess[s].default.out = "err" THEN ErrResult(ErrorOf(default))
                        ELSE LowestError(s)
                  /\ sess[s].service = NoService
            /\ sess[s].state = "ready" <=>
                  /\ sess[s].default.out = "ok"
                  /\ \A k \in 1..Len(sess[s].elems) : sess[s].elems[k].kind = "ok"
            /\ sess[s].state = "ready" => sess[s].error = NoResult

\* C12 witness: a route failed, another had constructed and was discarded;
\* a second session was constructed with every slot.
C12_Witness ==
    \E s, t \in Sessions :
        /\ sess[s].state = "failed" /\ sess[s].default.out = "ok"
        /\ sess[s].elems[1].kind = "ok"
        /\ sess[s].elems[MaxRoutes].kind = "err"
        /\ sess[t].state = "ready" /\ Len(sess[t].elems) = MaxRoutes

\* C13: when the default's construction fails with E the construction has
\* resolved to Err(E); and the poll at which the default yields its error
\* resolves to Err(E) whatever the per-route futures would yield at that
\* poll (errors of their own, or nothing yet), without touching them.
C13_DefaultFailureDominates ==
    \A s \in Sessions :
        /\ sess[s].default.out = "err" =>
              /\ sess[s].state = "failed"
              /\ sess[s].error = ErrResult(ErrorOf(default))
        /\ sess[s].state = "building" /\ sess[s].default.kind = "left" =>
              \A outs \in [1..Len(sess[s].elems) -> BuildOutcomes] :
                  LET g == RouterFactoryFut_poll(sess[s], "err", outs)
                  IN  /\ g.state = "failed"
                      /\ g.error = ErrResult(ErrorOf(default))
                      /\ g.elems = sess[s].elems

\* C13 witness: a user default failed for a router with MaxRoutes routes, none
\* of which was polled.
C13_Witness ==
    \E s \in Sessions :
        /\ sess[s].default.out = "err"
        /\ default \in DefaultServices
        /\ Len(sess[s].elems) = MaxRoutes
        /\ \A k \in 1..MaxRoutes : sess[s].elems[k].kind = "pending"
        /\ sess[s].state = "failed"

\* C14: once compiled, no step changes the route table, the handler-factory
\* list or the default, and a constructed session Router is not changed by
\* anything that happens later.
C14_CompiledTableImmutable ==
    [][phase = "compiled" =>
          /\ phase' = "compiled"
          /\ router' = router
          /\ handlers' = handlers
          /\ default' = default
          /\ \A s \in Sessions : sess[s].state = "ready" => sess'[s] = sess[s]]_vars

\* C14 witness: two sessions were created from one compiled factory and a
\* publish was dispatched.
C14_Witness ==
    /\ phase = "compiled"
    /\ Len(router) = MaxRoutes
    /\ \A s \in Sessions : sess[s].state = "ready"
    /\ last.op = "call"
    /\ last.invoked # <<>>

\* C15: the default in force is the service of the most recent
\* default_resource call, the built-in one when there was none; every session
\* builds its default slot from it; the built-in default never fails to
\* construct and answers Ok(()) to every publish.
C15_DefaultIsLastSet ==
    /\ default \in DefaultServices \cup {"builtin"}
    /\ last.op = "default_resource" => default = last.service
    /\ \A s \in Sessions :
          /\ sess[s].state # "none" => sess[s].default.slot = SlotOf(default, s)
          /\ sess[s].state = "ready" => sess[s].service.default = SlotOf(default, s)
          /\ default = "builtin" => sess[s].default.out # "err"
    /\ last.op = "call" /\ last.invoked = <<SlotOf("builtin", last.session)>> =>
          last.result = OkResult

\* C15 witness: the user's default, not the built-in one, answered a publish
\* with its own error.
C15_Witness ==
    /\ last.op = "call"
    /\ default \in DefaultServices
    /\ sess[last.session].service.default.factory = default
    /\ last.invoked = <<sess[last.session].service.default>>
    /\ last.result = ErrResult(ErrorOf(default))

C17_StepsInOrderOnce ==
    \A c \in Conns :
        /\ conn[c].pc = "idle" =>
              conn[c].connectCalls = 0 /\ conn[c].factoryCalls = 0
                  /\ conn[c].dispatchCalls = 0
        /\ conn[c].pc # "idle" =>
              /\ conn[c].connectCalls = 1
              /\ conn[c].factoryCalls \in {0, 1}
              /\ conn[c].dispatchCalls \in {0, 1}
              /\ conn[c].factoryCalls = 1 <=> conn[c].handshake.kind = "ok"
              /\ conn[c].factoryCalls = 1 => conn[c].factoryArg = conn[c].handshake.st
              /\ conn[c].dispatchCalls = 1 =>
                    conn[c].factoryCalls = 1 /\ conn[c].built.kind = "ok"
              /\ conn[c].built.kind # "none" => conn[c].handshake.kind = "ok"
              /\ \/ conn[c].handshake.kind = "err"
                 \/ conn[c].built.kind = "err"
                 \/ conn[c].dispatched.kind = "err"
                 => conn[c].pc = "done" /\ conn[c].result.kind = "err"

\* C17 witness: one call went through all three steps, another stopped at a
\* failed construction, each step taken once.
C17_Witness ==
    \E c, d \in Conns :
        /\ conn[c].pc = "done" /\ conn[c].dispatched.kind = "ok"
        /\ conn[c].connectCalls = 1 /\ conn[c].factoryCalls = 1
        /\ conn[c].dispatchCalls = 1
        /\ conn[d].pc = "done" /\ conn[d].built.kind = "err"
        /\ conn[d].connectCalls = 1 /\ conn[d].factoryCalls = 1
        /\ conn[d].dispatchCalls = 0

\* C18: the k-th registered route has index k - 1 and the k-th factory; a
\* constructed session Router holds one slot per route, the k-th built by
\* the k-th factory, and the default slot; every index the matcher can return
\* is a position of the slot list; a session not constructed holds no slots.
C18_OneSlotPerRoute ==
    /\ Len(router) = Len(handlers)
    /\ \A k \in 1..Len(router) :
          router[k].idx = k - 1 /\ handlers[k] = ServiceName(k - 1)
    /\ \A s \in Sessions :
          /\ sess[s].state = "ready" =>
                /\ Len(sess[s].service.handlers) = Len(router)
                /\ \A k \in 1..Len(router) :
                      sess[s].service.handlers[k] = SlotOf(handlers[k], s)
                /\ sess[s].service.default = SlotOf(default, s)
                /\ \A topic \in Topics : \A m \in recognize(router, topic) :
                      m.found => m.idx + 1 \in 1..Len(sess[s].service.handlers)
          /\ sess[s].state # "ready" => sess[s].service = NoService

\* C18 witness: a publish was dispatched to the slot of the route registered
\* last, at the last position of the slot list.
C18_Witness ==
    /\ last.op = "call"
    /\ Len(router) = MaxRoutes
    /\ Len(sess[last.session].service.handlers) = MaxRoutes
    /\ last.invoked = <<SlotOf(handlers[MaxRoutes], last.session)>>

\* C20: with the default constructed, the construction stays unresolved as
\* long as a per-route construction has not completed, also when another has
\* already failed; once resolved to an error, the error is that of the failed
\* route registered first.
C20_JoinWaitsLowestIndexError ==
    \A s \in Sessions :
        sess[s].default.out = "ok" =>
            LET pend == {k \in 1..Len(sess[s].elems) : sess[s].elems[k].kind = "pending"}
            IN  /\ pend # {} => sess[s].state = "building" /\ sess[s].error = NoResult
                /\ sess[s].state \in {"ready", "failed"} => pend = {}
                /\ sess[s].state = "failed" =>
                      /\ FailedElems(s) # {}
                      /\ sess[s].error = LowestError(s)

\* C20 witness: every route failed; the error is that of the first route. In
\* another session a late route has failed and construction still waits for
\* the first.
C20_Witness ==
    \E s, t \in Sessions :
        /\ sess[s].state = "failed"
        /\ Len(sess[s].elems) = MaxRoutes
        /\ \A k \in 1..MaxRoutes : sess[s].elems[k].kind = "err"
        /\ sess[s].error = ErrResult(ErrorOf(handlers[1]))
        /\ sess[t].state = "building"
        /\ sess[t].elems[1].kind = "pending"
        /\ sess[t].elems[MaxRoutes].kind = "err"

\* C19: a task parked on poll_ready's Pending has its waker in every slot
\* that is not ready, and in at least one; so when the slots of a session
\* have all become ready its task is polled again and poll_ready returns
\* Ready(Ok).
C19_NoLostWakeup ==
    /\ [](\A s \in Sessions :
            /\ task[s].state = "parked" =>
                  /\ \A k \in 1..Len(slots[s]) :
                        slots[s][k].state = "pending" => slots[s][k].waker
                  /\ \E k \in 1..Len(slots[s]) : slots[s][k].state = "pending"
            /\ last.op = "poll_ready" /\ last.session = s /\ last.result = PendingPoll =>
                  Len(last.reports) = Len(slots[s]))
    /\ \A s \in Sessions :
          (/\ task[s].state # "none"
           /\ \A k \in 1..Len(slots[s]) : slots[s][k].state = "ready")
             ~> (task[s].state = "ready")

\* C19 witness: the task was parked with MaxRoutes slots not ready, was woken
\* and found every slot ready.
C19_Witness ==
    \E s \in Sessions :
        /\ task[s] = [state |-> "ready", woken |-> TRUE]
        /\ Len(slots[s]) = MaxRoutes
        /\ \A k \in 1..MaxRoutes : slots[s][k].state = "ready"

=============================================================================
